---- MODULE Spec2Model ----
(***************************************************************************)
(* Model of the label store of vue-multilang-store (src/Store.js): the     *)
(* module-level state, Store.install, addLabel, getTranslation and the     *)
(* functions of $labelStore, with the persistent storage slot              *)
(* localStorage.language and the 'changeLanguage' event bus.               *)
(***************************************************************************)
EXTENDS Integers, Sequences, FiniteSets

(***************************************************************************)
(* JavaScript values.  A value is a record of its type and its content;    *)
(* only the distinctions the code tests (typeof, truthiness, length,       *)
(* property-key coercion) are kept.                                        *)
(***************************************************************************)
Undefined == [type |-> "undefined", val |-> ""]
Null == [type |-> "null", val |-> ""]
Str(s) == [type |-> "string", val |-> s]
Num(s) == [type |-> "number", val |-> s]

\* if (x) ... : undefined, null and '' are falsy, the other values used here are truthy.
Truthy(v) == /\ v.type \notin {"undefined", "null"}
             /\ ~(v.type = "string" /\ v.val = "")

\* typeof v !== 'string' || v.length <= 0, negated.
IsNonEmptyString(v) == v.type = "string" /\ v.val # ""

\* Coercion of a value used as a property key or stored in localStorage.
ToStr(v) == CASE v.type = "undefined" -> "undefined"
                 [] v.type = "null" -> "null"
                 [] OTHER -> v.val

\* Array.prototype.includes on a sequence of values.
Includes(list, v) == \E i \in 1..Len(list) : list[i] = v

\* Array.prototype.indexOf, 1-based; 0 stands for JavaScript's -1.
IndexOf(list, v) ==
  IF Includes(list, v)
  THEN CHOOSE i \in 1..Len(list) : list[i] = v /\ \A j \in 1..(i - 1) : list[j] # v
  ELSE 0

\* obj[k] on an object modelled as a function from property names to values.
Get(obj, k) == IF k \in DOMAIN obj THEN obj[k] ELSE Undefined

\* obj[k] = v
Put(obj, k, v) == [p \in (DOMAIN obj) \cup {k} |-> IF p = k THEN v ELSE obj[p]]

EmptyObject == [p \in {} |-> Undefined]

(***************************************************************************)
(* Bounds and input sets.                                                  *)
(***************************************************************************)
MaxLangs == 2        \* longest languageList option
MaxSeq == 2          \* longest positional translation
MaxProps == 2        \* most properties of a keyed translation
MaxComponents == 1   \* components created by the mixin

Texts == {Str("cookie"), Str("Keks")}
BadEntries == {Str(""), Num("5")}
Tags == {"en", "de"}

SeqsUpTo(S, n) == UNION {[1..k -> S] : k \in 0..n}

\* A translation argument: an Array (items) or a plain Object (props).
ArrayOf(items) == [kind |-> "array", items |-> items, props |-> EmptyObject]
ObjectOf(props) == [kind |-> "object", items |-> <<>>, props |-> props]

ArrayTranslations == {ArrayOf(s) : s \in SeqsUpTo(Texts \cup BadEntries, MaxSeq)}
ObjectTranslations ==
  {ObjectOf(f) : f \in UNION {[D -> Texts \cup BadEntries] :
                                D \in {E \in SUBSET (Tags \cup {"undefined"}) :
                                         Cardinality(E) <= MaxProps}}}
TranslationInputs == ArrayTranslations \cup ObjectTranslations

\* The arguments of addLabel.  A key that is not a non-empty String is
\* rejected before the translation is looked at, so one translation is
\* enough for those.
KeyInputs == {Str("cookie"), Str(""), Num("5")}
AddLabelInputs ==
  {<<key, translation>> \in KeyInputs \X TranslationInputs :
     IsNonEmptyString(key) \/ translation = ArrayOf(<<Str("cookie"), Str("Keks")>>)}
LookupKeys == {Str("cookie"), Str("confirm"), Str("constructor")}

\* The languageList option: missing, an Array, or an Object whose values are
\* listed in the order for-in visits them.
NoList == [kind |-> "missing", items |-> <<>>]
LanguageListInputs ==
  {NoList} \cup
  {[kind |-> k, items |-> s] : k \in {"array", "object"},
                               s \in SeqsUpTo({Str(t) : t \in Tags} \cup BadEntries, MaxLangs)}

DefaultLanguageInputs == {Undefined, Str("en"), Str("de")}

\* The labels option: the entries in the order for-in visits them.
InitTranslations ==
  { ArrayOf(<<Str("cookie"), Str("Keks")>>), ArrayOf(<<Str("cookie")>>),
    ObjectOf([t \in {"en", "de"} |-> IF t = "en" THEN Str("cookie") ELSE Str("Keks")]),
    ObjectOf([t \in {"de"} |-> Str("Keks")]) }
LabelsInputs ==
  {<<>>} \cup {<<[key |-> "cookie", translation |-> x]>> : x \in InitTranslations}
         \cup {<<[key |-> "cookie", translation |-> x], [key |-> "confirm", translation |-> y]>> :
                 x \in InitTranslations, y \in InitTranslations}

OptionsInputs ==
  [given : {TRUE}, languageList : LanguageListInputs,
   defaultLanguage : DefaultLanguageInputs, labels : LabelsInputs]
  \cup {[given |-> FALSE, languageList |-> NoList, defaultLanguage |-> Undefined, labels |-> <<>>]}

\* What localStorage.language may hold before the page loads.
StoredInputs == {Undefined, Str(""), Str("en"), Str("de")}

SetLanguageInputs == {Str("en"), Str("de"), Str("fr"), Undefined}

\* The after and before arguments of the translate filter ('' is the default).
AfterInputs == {"", "B"}
BeforeInputs == {"", "A"}


(***************************************************************************)
(* State.                                                                  *)
(***************************************************************************)
VARIABLES
  pc,               \* "load": before Vue.use; "ready": install returned; "failed": install threw
  languageList,     \* let languageList
  defaultLanguage,  \* let defaultLanguage
  activeLanguage,   \* let activeLanguage
  labels,           \* let labels
  localStorage,     \* localStorage.language (Undefined when the slot is absent)
  components,       \* number of components whose created hook subscribed to the event bus
  call,             \* the last operation invoked and its arguments (of a translation, its notation)
  outcome           \* what that operation did: threw, returned, warned, emitted, observers' view

vars == <<pc, languageList, defaultLanguage, activeLanguage, labels, localStorage,
          components, call, outcome>>

\* An outcome with nothing thrown, returned, warned or emitted.
Quiet == [threw |-> FALSE, ret |-> Undefined, warned |-> {}, emits |-> 0, seen |-> <<>>]

(***************************************************************************)
(* addLabel (Store.js 40-90).                                              *)
(***************************************************************************)
\* Lines 56-64: the loop of the array notation, from entry i on, over the
\* translationList built so far.  threw is set at the first entry that is
\* not a non-empty String.
RECURSIVE ArrayLoop(_, _, _, _)
ArrayLoop(items, list, i, translationList) ==
  IF i > Len(items) THEN [threw |-> FALSE, translationList |-> translationList]
  ELSE IF ~IsNonEmptyString(items[i]) THEN [threw |-> TRUE, translationList |-> translationList]
  ELSE ArrayLoop(items, list, i + 1,
                 Put(translationList,
                     ToStr(IF i <= Len(list) THEN list[i] ELSE Undefined), items[i]))

\* Lines 72-85: the loop of the object notation.  The entries of registered
\* languages are copied, the others are warned about; the order of for-in
\* does not matter, because translationList is dropped when the loop throws.
ObjectLoop(props, list) ==
  LET known == {lang \in DOMAIN props : Includes(list, Str(lang))}
  IN [threw |-> \E lang \in known : ~IsNonEmptyString(props[lang]),
      warned |-> (DOMAIN props) \ known,
      translationList |-> [lang \in known |-> props[lang]]]

\* The translationList of a call at the moment it returns or throws, for the
\* variants of addLabel below.
TranslationListOf(list, default, key, translation) ==
  IF translation.kind = "array" THEN
    LET idx == IndexOf(list, default)
        atDefault == IF idx >= 1 /\ idx <= Len(translation.items)
                     THEN translation.items[idx] ELSE Undefined
        loop == ArrayLoop(translation.items, list, 1, EmptyObject)
    IN [threw |-> ~IsNonEmptyString(key) \/ ~Truthy(atDefault) \/ loop.threw,
        translationList |-> loop.translationList, warned |-> {}]
  ELSE
    LET loop == ObjectLoop(translation.props, list)
    IN [threw |-> \/ ~IsNonEmptyString(key)
                  \/ ~Truthy(Get(translation.props, ToStr(default)))
                  \/ loop.threw,
        translationList |-> loop.translationList, warned |-> loop.warned]

\* addLabel filling labels[key] entry by entry, so that a call that throws
\* leaves the entries it had already copied.
AddLabelResult_PartialWrite(reg, list, default, key, translation) ==
  LET t == TranslationListOf(list, default, key, translation) IN
  IF ~IsNonEmptyString(key) THEN [threw |-> TRUE, labels |-> reg, warned |-> {}]
  ELSE IF t.threw THEN [threw |-> TRUE, labels |-> Put(reg, key.val, t.translationList),
                        warned |-> {}]
  ELSE [threw |-> FALSE, labels |-> Put(reg, key.val, t.translationList), warned |-> t.warned]

\* addLabel merging the new translations into the label already stored.
AddLabelResult_Merge(reg, list, default, key, translation) ==
  LET t == TranslationListOf(list, default, key, translation)
      old == IF IsNonEmptyString(key) /\ key.val \in DOMAIN reg THEN reg[key.val] ELSE EmptyObject
      new == t.translationList
  IN IF t.threw THEN [threw |-> TRUE, labels |-> reg, warned |-> {}]
     ELSE [threw |-> FALSE,
           labels |-> Put(reg, key.val,
                          [l \in (DOMAIN old) \cup (DOMAIN new) |->
                             IF l \in DOMAIN new THEN new[l] ELSE old[l]]),
           warned |-> t.warned]

\* addLabel refusing a key that already has a label.
AddLabelResult_RejectExisting(reg, list, default, key, translation) ==
  LET t == TranslationListOf(list, default, key, translation) IN
  IF t.threw \/ key.val \in DOMAIN reg THEN [threw |-> TRUE, labels |-> reg, warned |-> {}]
  ELSE [threw |-> FALSE, labels |-> Put(reg, key.val, t.translationList), warned |-> t.warned]

\* The whole function: the registry after the call, whether it threw, and
\* the languages console.warn reported by a call that returned (the warnings
\* that precede a throw depend on the order of for-in and are not recorded).
AddLabelResult(reg, list, default, key, translation) ==
  LET fail == [threw |-> TRUE, labels |-> reg, warned |-> {}] IN
  IF ~IsNonEmptyString(key) THEN fail
  ELSE IF translation.kind = "array" THEN
    LET idx == IndexOf(list, default)
        atDefault == IF idx >= 1 /\ idx <= Len(translation.items)
                     THEN translation.items[idx] ELSE Undefined
        loop == ArrayLoop(translation.items, list, 1, EmptyObject)
    IN IF ~Truthy(atDefault) \/ loop.threw THEN fail
       ELSE [threw |-> FALSE, labels |-> Put(reg, key.val, loop.translationList), warned |-> {}]
  ELSE
    LET loop == ObjectLoop(translation.props, list)
    IN IF ~Truthy(Get(translation.props, ToStr(default))) THEN fail
       ELSE IF loop.threw THEN fail
       ELSE [threw |-> FALSE, labels |-> Put(reg, key.val, loop.translationList),
             warned |-> loop.warned]

(***************************************************************************)
(* getTranslation (Store.js 106-120).                                      *)
(***************************************************************************)
\* The property names labels = {} (line 14) inherits from Object.prototype:
\* labels[key] is a function for them although no label was ever added.
ObjectPrototypeKeys == {"constructor"}

\* getTranslation returning the default language's translation, whatever
\* language is asked for.
getTranslation_DefaultOnly(reg, key, lang) ==
  IF ToStr(key) \in DOMAIN reg THEN Get(reg[ToStr(key)], ToStr(defaultLanguage))
  ELSE IF ToStr(key) \in ObjectPrototypeKeys THEN Undefined
  ELSE Str("")

getTranslation(reg, key, lang) ==
  IF ToStr(key) \in DOMAIN reg
  THEN IF Truthy(Get(reg[ToStr(key)], ToStr(lang)))
       THEN Get(reg[ToStr(key)], ToStr(lang))
       ELSE Get(reg[ToStr(key)], ToStr(lang))
  ELSE IF ToStr(key) \in ObjectPrototypeKeys
  THEN Undefined   \* labels[key] is the inherited function, labels[key][lang] is undefined
  ELSE Str("")

\* Lines 123-126: localStorage.language = activeLanguage stores the value as a string.
writeLanguageToLocalStorage(active) == Str(ToStr(active))

\* Lines 128-131.
readLanguageFromLocalStorage(slot) == slot


(***************************************************************************)
(* Store.install (Store.js 137-320).                                       *)
(***************************************************************************)
\* The first entry of the languageList option that is not a non-empty
\* String, 0 when every entry passes.
FirstBadEntry(items) ==
  IF \E i \in 1..Len(items) : ~IsNonEmptyString(items[i])
  THEN CHOOSE i \in 1..Len(items) :
         ~IsNonEmptyString(items[i]) /\ \A j \in 1..(i - 1) : IsNonEmptyString(items[j])
  ELSE 0

\* Lines 150-175.  The array notation assigns the option itself to
\* languageList once per entry that passed; the object notation pushes the
\* values one by one.  Both leave languageList as it was for an empty option.
ResolveLanguageList(list, option) ==
  LET bad == FirstBadEntry(option.items) IN
  IF option.kind = "missing" THEN [threw |-> TRUE, languageList |-> list]
  ELSE IF option.kind = "array"
  THEN [threw |-> bad # 0,
        languageList |-> IF Len(option.items) = 0 \/ bad = 1 THEN list ELSE option.items]
  ELSE [threw |-> bad # 0,
        languageList |-> list \o (IF bad = 0 THEN option.items
                                  ELSE SubSeq(option.items, 1, bad - 1))]

\* Lines 177-190.
ResolveDefaultLanguage(list, default, option) ==
  IF Truthy(option)
  THEN IF ~Includes(list, option) THEN [threw |-> TRUE, defaultLanguage |-> default]
       ELSE [threw |-> FALSE, defaultLanguage |-> option]
  ELSE [threw |-> FALSE, defaultLanguage |-> IF Len(list) >= 1 THEN list[1] ELSE Undefined]

\* Lines 192-194.
ResolveActiveLanguage(slot, default) ==
  LET storedLanguage == readLanguageFromLocalStorage(slot)
  IN IF Truthy(storedLanguage) THEN storedLanguage ELSE default

\* Lines 198-204: addLabel for each entry of the labels option, from entry i
\* on; the first call that throws ends the loop.
RECURSIVE LoadLabels(_, _, _, _, _)
LoadLabels(entries, i, reg, list, default) ==
  IF i > Len(entries) THEN [threw |-> FALSE, labels |-> reg]
  ELSE LET r == AddLabelResult(reg, list, default, Str(entries[i].key), entries[i].translation)
       IN IF r.threw THEN [threw |-> TRUE, labels |-> r.labels]
          ELSE LoadLabels(entries, i + 1, r.labels, list, default)

\* install loading the labels ahead of the active language: a label that
\* fails leaves the active language and the storage slot untouched.
InstallResult_LabelsFirst(options, s) ==
  LET l == ResolveLanguageList(s.languageList, options.languageList)
      d == ResolveDefaultLanguage(l.languageList, s.defaultLanguage, options.defaultLanguage)
      a == ResolveActiveLanguage(s.localStorage, d.defaultLanguage)
      r == LoadLabels(options.labels, 1, s.labels, l.languageList, d.defaultLanguage)
  IN IF ~options.given THEN [s EXCEPT !.threw = TRUE]
     ELSE IF l.threw THEN [s EXCEPT !.threw = TRUE, !.languageList = l.languageList]
     ELSE IF d.threw THEN [s EXCEPT !.threw = TRUE, !.languageList = l.languageList]
     ELSE IF r.threw THEN [s EXCEPT !.threw = TRUE, !.languageList = l.languageList,
                                    !.defaultLanguage = d.defaultLanguage,
                                    !.labels = r.labels]
     ELSE [threw |-> FALSE,
           languageList |-> l.languageList,
           defaultLanguage |-> d.defaultLanguage,
           activeLanguage |-> a,
           localStorage |-> writeLanguageToLocalStorage(a),
           labels |-> r.labels]

\* The module-level state install leaves behind, and whether it threw.
InstallResult(options, s) ==
  LET l == ResolveLanguageList(s.languageList, options.languageList)
      d == ResolveDefaultLanguage(l.languageList, s.defaultLanguage, options.defaultLanguage)
      a == ResolveActiveLanguage(s.localStorage, d.defaultLanguage)
      r == LoadLabels(options.labels, 1, s.labels, l.languageList, d.defaultLanguage)
  IN IF ~options.given THEN [s EXCEPT !.threw = TRUE]
     ELSE IF l.threw THEN [s EXCEPT !.threw = TRUE, !.languageList = l.languageList]
     ELSE IF d.threw THEN [s EXCEPT !.threw = TRUE, !.languageList = l.languageList]
     ELSE [threw |-> r.threw,
           languageList |-> l.languageList,
           defaultLanguage |-> d.defaultLanguage,
           activeLanguage |-> a,
           localStorage |-> writeLanguageToLocalStorage(a),
           labels |-> r.labels]

(***************************************************************************)
(* The state machine.                                                      *)
(***************************************************************************)
\* Lines 5-17, before Vue.use(Store, options); the storage slot holds
\* whatever an earlier visit left.
Init ==
  /\ pc = "load"
  /\ languageList = <<>>
  /\ defaultLanguage = Null
  /\ activeLanguage = Null
  /\ labels = EmptyObject
  /\ localStorage \in StoredInputs
  /\ components = 0
  /\ call = [op |-> "none"]
  /\ outcome = Quiet

\* Vue.use(Store, options).
Install(options) ==
  /\ pc = "load"
  /\ \E r \in {InstallResult(options,
                             [threw |-> FALSE, languageList |-> languageList,
                              defaultLanguage |-> defaultLanguage,
                              activeLanguage |-> activeLanguage,
                              localStorage |-> localStorage, labels |-> labels])} :
     /\ pc' = IF r.threw THEN "failed" ELSE "ready"
     /\ languageList' = r.languageList
     /\ defaultLanguage' = r.defaultLanguage
     /\ activeLanguage' = r.activeLanguage
     /\ localStorage' = r.localStorage
     /\ labels' = r.labels
     /\ call' = [op |-> "install", options |-> options, stored |-> localStorage]
     /\ outcome' = [Quiet EXCEPT !.threw = r.threw]
     /\ UNCHANGED components

\* The created hook of the mixin (lines 313-318): a new component
\* subscribes to 'changeLanguage'.
CreateComponent ==
  /\ pc = "ready"
  /\ components < MaxComponents
  /\ components' = components + 1
  /\ call' = [op |-> "created"]
  /\ outcome' = Quiet
  /\ UNCHANGED <<pc, languageList, defaultLanguage, activeLanguage, labels, localStorage>>

\* addLabel announcing the new label on the event bus.
AddLabel_Notifies(key, translation) ==
  /\ pc = "ready"
  /\ \E r \in {AddLabelResult(labels, languageList, defaultLanguage, key, translation)} :
     /\ labels' = r.labels
     /\ call' = [op |-> "addLabel", key |-> key, kind |-> translation.kind]
     /\ outcome' = [Quiet EXCEPT !.threw = r.threw, !.warned = r.warned,
                                 !.emits = IF r.threw THEN 0 ELSE 1]
     /\ UNCHANGED <<pc, languageList, defaultLanguage, activeLanguage, localStorage, components>>

\* $labelStore.addLabel(key, translation) at runtime (line 224).
AddLabel(key, translation) ==
  /\ pc = "ready"
  /\ \E r \in {AddLabelResult(labels, languageList, defaultLanguage, key, translation)} :
     /\ labels' = r.labels
     /\ call' = [op |-> "addLabel", key |-> key, kind |-> translation.kind]
     /\ outcome' = [Quiet EXCEPT !.threw = r.threw, !.warned = r.warned]
     /\ UNCHANGED <<pc, languageList, defaultLanguage, activeLanguage, localStorage, components>>

\* Lines 232-234: what $labelStore.getLanguage() returns.
getLanguage == activeLanguage

\* $labelStore.getLanguage().
GetLanguage ==
  /\ pc = "ready"
  /\ call' = [op |-> "getLanguage"]
  /\ outcome' = [Quiet EXCEPT !.ret = getLanguage]
  /\ UNCHANGED <<pc, languageList, defaultLanguage, activeLanguage, labels, localStorage,
                 components>>

\* What the handlers of 'changeLanguage' find when $emit runs them, one
\* entry per subscribed component: the event bus calls them synchronously,
\* so they read the state at the moment of the emission.
Emit(n, active, slot) == [i \in 1..n |-> [activeLanguage |-> active, localStorage |-> slot]]

\* setLanguage without the write to localStorage.
SetLanguageResult_NoWrite(list, active, slot, n, lang) ==
  IF ~Includes(list, lang)
  THEN [threw |-> TRUE, activeLanguage |-> active, localStorage |-> slot,
        emits |-> 0, seen |-> <<>>]
  ELSE [threw |-> FALSE, activeLanguage |-> lang, localStorage |-> slot,
        emits |-> 1, seen |-> Emit(n, lang, slot)]

\* setLanguage assigning the active language ahead of the membership test.
SetLanguageResult_AssignFirst(list, active, slot, n, lang) ==
  IF ~Includes(list, lang)
  THEN [threw |-> TRUE, activeLanguage |-> lang, localStorage |-> slot,
        emits |-> 0, seen |-> <<>>]
  ELSE [threw |-> FALSE, activeLanguage |-> lang,
        localStorage |-> writeLanguageToLocalStorage(lang),
        emits |-> 1, seen |-> Emit(n, lang, writeLanguageToLocalStorage(lang))]

\* setLanguage emitting 'changeLanguage' ahead of the write to localStorage.
SetLanguageResult_EmitFirst(list, active, slot, n, lang) ==
  IF ~Includes(list, lang)
  THEN [threw |-> TRUE, activeLanguage |-> active, localStorage |-> slot,
        emits |-> 0, seen |-> <<>>]
  ELSE [threw |-> FALSE, activeLanguage |-> lang,
        localStorage |-> writeLanguageToLocalStorage(lang),
        emits |-> 1, seen |-> Emit(n, lang, slot)]

\* Lines 244-255: the state after the call, and what the observers saw.
SetLanguageResult(list, active, slot, n, lang) ==
  IF ~Includes(list, lang)
  THEN [threw |-> TRUE, activeLanguage |-> active, localStorage |-> slot,
        emits |-> 0, seen |-> <<>>]
  ELSE LET active1 == lang
           slot1 == writeLanguageToLocalStorage(active1)
       IN [threw |-> FALSE, activeLanguage |-> active1, localStorage |-> slot1,
           emits |-> 1, seen |-> Emit(n, active1, slot1)]

\* $labelStore.setLanguage(lang).
SetLanguage(lang) ==
  /\ pc = "ready"
  /\ \E r \in {SetLanguageResult(languageList, activeLanguage, localStorage, components, lang)} :
     /\ activeLanguage' = r.activeLanguage
     /\ localStorage' = r.localStorage
     /\ call' = [op |-> "setLanguage", lang |-> lang]
     /\ outcome' = [Quiet EXCEPT !.threw = r.threw, !.emits = r.emits, !.seen = r.seen]
     /\ UNCHANGED <<pc, languageList, defaultLanguage, labels, components>>

\* $labelStore.translate(key) (lines 261-263).
Translate(key) ==
  /\ pc = "ready"
  /\ call' = [op |-> "translate", key |-> key]
  /\ outcome' = [Quiet EXCEPT !.ret = getTranslation(labels, key, activeLanguage)]
  /\ UNCHANGED <<pc, languageList, defaultLanguage, activeLanguage, labels, localStorage,
                 components>>

\* The translate filter putting the separating space around the translation
\* even when before or after is ''.
translateFilter_AlwaysSpace(reg, active, key, after, before) ==
  Str(before \o " " \o ToStr(getTranslation(reg, key, active)) \o " " \o after)

\* Lines 291-295: what the filter returns; the template literal turns the
\* translation into a string.
translateFilter(reg, active, key, after, before) ==
  LET extendAfter == IF Len(after) = 0 THEN after ELSE " " \o after
      extendBefore == IF Len(before) = 0 THEN before ELSE before \o " "
  IN Str(extendBefore \o ToStr(getTranslation(reg, key, active)) \o extendAfter)

\* {{ key | translate(after, before) }} in a template.
Filter(key, after, before) ==
  /\ pc = "ready"
  /\ call' = [op |-> "filter", key |-> key, after |-> after, before |-> before]
  /\ outcome' = [Quiet EXCEPT !.ret = translateFilter(labels, activeLanguage, key, after, before)]
  /\ UNCHANGED <<pc, languageList, defaultLanguage, activeLanguage, labels, localStorage,
                 components>>

DoInstall == pc = "load" /\ \E options \in OptionsInputs : Install(options)
DoAddLabel == \E input \in AddLabelInputs : AddLabel(input[1], input[2])
DoSetLanguage == \E lang \in SetLanguageInputs : SetLanguage(lang)
DoTranslate == \E key \in LookupKeys : Translate(key)
DoFilter ==
  \E key \in LookupKeys, after \in AfterInputs, before \in BeforeInputs :
    Filter(key, after, before)

Next ==
  \/ DoInstall
  \/ CreateComponent
  \/ DoAddLabel
  \/ GetLanguage
  \/ DoSetLanguage
  \/ DoTranslate

Spec == Init /\ [][Next]_vars

\* The filter in templates: the page installs the store, switches languages
\* and renders labels through the filter.
NextFilter ==
  \/ DoInstall
  \/ DoSetLanguage
  \/ DoFilter

SpecFilter == Init /\ [][NextFilter]_vars

\* addLabel with its arguments on record.  call keeps the translation and
\* the label the key had before the call, so that the stored label can be
\* compared with the argument.
AddLabelRecorded(key, translation) ==
  /\ pc = "ready"
  /\ \E r \in {AddLabelResult(labels, languageList, defaultLanguage, key, translation)} :
     /\ labels' = r.labels
     /\ call' = [op |-> "addLabel", key |-> key, kind |-> translation.kind,
                 translation |-> translation,
                 had |-> ToStr(key) \in DOMAIN labels,
                 replaced |-> Get(labels, ToStr(key)),
                 times |-> 1]
     /\ outcome' = [Quiet EXCEPT !.threw = r.threw, !.warned = r.warned]
     /\ UNCHANGED <<pc, languageList, defaultLanguage, activeLanguage, localStorage, components>>

\* call is an addLabel call with its arguments on record.
Recorded == call.op = "addLabel" /\ "translation" \in DOMAIN call

\* The recorded call once more, with the same arguments.
RepeatAddLabel ==
  /\ pc = "ready"
  /\ Recorded
  /\ call.times = 1
  /\ \E r \in {AddLabelResult(labels, languageList, defaultLanguage, call.key, call.translation)} :
     /\ labels' = r.labels
     /\ call' = [call EXCEPT !.times = 2]
     /\ outcome' = [Quiet EXCEPT !.threw = r.threw, !.warned = r.warned]
     /\ UNCHANGED <<pc, languageList, defaultLanguage, activeLanguage, localStorage, components>>

DoAddLabelRecorded == \E input \in AddLabelInputs : AddLabelRecorded(input[1], input[2])

\* Any run of install and addLabel calls, closed by one recorded call and
\* its repetition.
NextArgs ==
  \/ DoInstall
  \/ ~Recorded /\ DoAddLabel
  \/ ~Recorded /\ DoAddLabelRecorded
  \/ RepeatAddLabel

SpecArgs == Init /\ [][NextArgs]_vars


(***************************************************************************)
(* Properties.                                                             *)
(***************************************************************************)
\* The tags of the language list.
ListTags == {languageList[i] : i \in 1..Len(languageList)}

\* C1: after a successful install, whatever the storage slot held and
\* whatever calls followed, getLanguage() is a member of the language list
\* (stated for the installs that configured at least one language).
C1_ActiveLanguageInList ==
  (pc = "ready" /\ Len(languageList) >= 1) => Includes(languageList, getLanguage)

\* C2: fallback law: for every committed key and every language L of the
\* list the label has no translation for, translate under L returns the
\* non-empty text translate returns under the default language.
C2_FallbackLaw ==
  pc = "ready" =>
    \A k \in DOMAIN labels : \A L \in ListTags :
      ToStr(L) \notin DOMAIN labels[k] =>
        /\ getTranslation(labels, Str(k), L) = getTranslation(labels, Str(k), defaultLanguage)
        /\ IsNonEmptyString(getTranslation(labels, Str(k), L))

\* C3: round trip: right after setLanguage(t) with t in the language list,
\* the call has returned, getLanguage() is t and the storage slot holds t.
C3_SetLanguageRoundTrip ==
  (pc = "ready" /\ call.op = "setLanguage" /\ Includes(languageList, call.lang)) =>
    /\ ~outcome.threw
    /\ getLanguage = call.lang
    /\ readLanguageFromLocalStorage(localStorage) = call.lang

C3_Witness ==
  /\ call.op = "setLanguage" /\ call.lang = Str("de") /\ ~outcome.threw
  /\ defaultLanguage = Str("en")

\* C4: right after install, the active language is the persisted tag when
\* the slot held a member of the language list and the default language
\* otherwise, and the slot holds the active language (stated for the
\* installs that configured at least one language).
C4_InitialActiveLanguage ==
  (pc = "ready" /\ call.op = "install" /\ Len(languageList) >= 1) =>
    /\ getLanguage = IF Includes(languageList, call.stored)
                     THEN call.stored ELSE defaultLanguage
    /\ localStorage = getLanguage

\* C5: every label of the registry has a non-empty translation for the
\* default language, so translate under the default language is never ''.
C5_DefaultTranslationPresent ==
  pc = "ready" =>
    \A k \in DOMAIN labels :
      /\ IsNonEmptyString(Get(labels[k], ToStr(defaultLanguage)))
      /\ getTranslation(labels, Str(k), defaultLanguage) # Str("")

\* C6: setLanguage(tag) with a tag outside the language list throws, emits
\* nothing and leaves the active language, the slot and the registry alone.
C6_SetLanguageRejects ==
  [][(call'.op = "setLanguage" /\ ~Includes(languageList, call'.lang)) =>
       /\ outcome'.threw
       /\ outcome'.emits = 0 /\ outcome'.seen = <<>>
       /\ activeLanguage' = activeLanguage
       /\ localStorage' = localStorage
       /\ labels' = labels]_vars

C6_Witness ==
  /\ call.op = "setLanguage" /\ call.lang = Str("fr") /\ outcome.threw
  /\ labels # EmptyObject /\ components > 0

\* C7: a successful setLanguage(t) emits 'changeLanguage' once, after the
\* active language and the storage slot were set: every observer that runs
\* finds getLanguage() = t and the slot holding t.
C7_WriteThenNotify ==
  (pc = "ready" /\ call.op = "setLanguage" /\ ~outcome.threw) =>
    /\ outcome.emits = 1
    /\ Len(outcome.seen) = components
    /\ \A i \in 1..Len(outcome.seen) :
         /\ outcome.seen[i].activeLanguage = call.lang
         /\ outcome.seen[i].localStorage = call.lang

C7_Witness ==
  /\ call.op = "setLanguage" /\ ~outcome.threw /\ call.lang = Str("de")
  /\ Len(outcome.seen) >= 1

\* C8: install throws whenever the languageList option is missing, empty,
\* or has an entry that is not a non-empty String.
C8_InvalidLanguageListFails ==
  (call.op = "install" /\
   (\/ ~call.options.given
    \/ call.options.languageList.kind = "missing"
    \/ Len(call.options.languageList.items) = 0
    \/ \E i \in 1..Len(call.options.languageList.items) :
         ~IsNonEmptyString(call.options.languageList.items[i]))) =>
    (outcome.threw /\ pc = "failed")

\* C9: after a successful install the default language is in the language
\* list: the defaultLanguage option when given (install throws unless it is
\* in the list), the first entry of the list when omitted.
C9_DefaultLanguageInList ==
  /\ pc = "ready" => Includes(languageList, defaultLanguage)
  /\ (pc = "ready" /\ call.op = "install") =>
       IF call.options.defaultLanguage = Undefined
       THEN Len(languageList) >= 1 /\ defaultLanguage = languageList[1]
       ELSE defaultLanguage = call.options.defaultLanguage
  /\ (call.op = "install" /\ call.options.given
        /\ call.options.defaultLanguage # Undefined
        /\ ~Includes(call.options.languageList.items, call.options.defaultLanguage)) =>
       outcome.threw

\* C10: no label of the registry maps a tag outside the language list, and
\* a keyed addLabel that met an unknown tag returns without storing it.
C10_OnlyListedTagsStored ==
  /\ pc = "ready" =>
       \A k \in DOMAIN labels : \A tag \in DOMAIN labels[k] :
         Includes(languageList, Str(tag))
  /\ (call.op = "addLabel" /\ ~outcome.threw) =>
       \A tag \in outcome.warned : tag \notin DOMAIN labels[call.key.val]


\* C11: an addLabel call that throws leaves the registry as it was, the
\* label stored under the same key included.
C11_AddLabelAtomic ==
  [][(call'.op = "addLabel" /\ outcome'.threw) => labels' = labels]_vars

C11_Witness ==
  /\ call.op = "addLabel" /\ outcome.threw /\ call.key = Str("cookie")
  /\ "cookie" \in DOMAIN labels /\ DOMAIN labels["cookie"] = {"en", "de"}

\* C13: translate(key) for a key no addLabel ever committed returns '' and
\* does not throw, whatever the state and the active language.
C13_UnknownKey ==
  (pc = "ready" /\ call.op = "translate" /\ ToStr(call.key) \notin DOMAIN labels) =>
    (~outcome.threw /\ outcome.ret = Str(""))

\* C14: with a language of the list active, translate(key) of a committed
\* label that has a translation for it returns exactly that translation.
C14_DirectLookup ==
  (/\ pc = "ready" /\ call.op = "translate"
   /\ ToStr(call.key) \in DOMAIN labels
   /\ Includes(languageList, getLanguage)
   /\ ToStr(getLanguage) \in DOMAIN labels[ToStr(call.key)]) =>
    /\ ~outcome.threw
    /\ outcome.ret = labels[ToStr(call.key)][ToStr(getLanguage)]

C14_Witness ==
  /\ call.op = "translate" /\ call.key = Str("cookie")
  /\ languageList = <<Str("en"), Str("de")>> /\ defaultLanguage = Str("en")
  /\ getLanguage = Str("de")
  /\ "cookie" \in DOMAIN labels /\ DOMAIN labels["cookie"] = {"en", "de"}
  /\ labels["cookie"]["en"] = Str("cookie")
  /\ outcome.ret = Str("Keks")

\* The options passed the language list and default language checks, so an
\* install that threw did so while adding the labels.
ThrewInLabels ==
  /\ call.op = "install" /\ outcome.threw /\ call.options.given
  /\ call.options.languageList.kind # "missing"
  /\ \A i \in 1..Len(call.options.languageList.items) :
       IsNonEmptyString(call.options.languageList.items[i])
  /\ \/ call.options.defaultLanguage = Undefined
     \/ Includes(call.options.languageList.items, call.options.defaultLanguage)

\* C16: install resolves the active language and writes it to the storage
\* slot before it adds the labels: when a label makes install throw, the
\* slot holds the resolved active language and the labels ahead of the
\* failing one are in the registry.
C16_ActiveBeforeLabels ==
  ThrewInLabels =>
    /\ pc = "failed"
    /\ activeLanguage = IF Truthy(call.stored) THEN call.stored ELSE defaultLanguage
    /\ localStorage = Str(ToStr(activeLanguage))
    /\ \E i \in 1..Len(call.options.labels) :
         DOMAIN labels = {call.options.labels[j].key : j \in 1..(i - 1)}

C16_Witness ==
  /\ ThrewInLabels /\ call.stored = Undefined
  /\ languageList = <<Str("en"), Str("de")>>
  /\ localStorage = Str("en")
  /\ DOMAIN labels = {"cookie"}

\* C18: after a successful install the language list is non-empty and has
\* no tag twice, for the Array and the Object form of the option.
C18_LanguageListUnique ==
  pc = "ready" =>
    /\ Len(languageList) >= 1
    /\ \A i, j \in 1..Len(languageList) : languageList[i] = languageList[j] => i = j

\* C20: addLabel (returning or throwing), translate (function and filter) and getLanguage leave the
\* active language and the storage slot as they were and emit nothing; once
\* install returned, only a setLanguage that returned changes the active
\* language or emits 'changeLanguage'.
C20_OnlySetLanguageChanges ==
  [][/\ call'.op \in {"addLabel", "translate", "filter", "getLanguage"} =>
          /\ activeLanguage' = activeLanguage
          /\ localStorage' = localStorage
          /\ outcome'.emits = 0 /\ outcome'.seen = <<>>
     /\ (pc = "ready" /\ (activeLanguage' # activeLanguage \/ outcome'.emits # 0)) =>
          (call'.op = "setLanguage" /\ ~outcome'.threw)]_vars

C20_Witness ==
  /\ call.op = "addLabel" /\ ~outcome.threw /\ components > 0
  /\ getLanguage = Str("de") /\ defaultLanguage = Str("en")

\* C19: the translate filter returns before, ' ', the translation of the
\* key under the active language, ' ', after, where an empty before or
\* after contributes nothing, not even its space.
C19_Decoration ==
  (pc = "ready" /\ call.op = "filter") =>
    LET T == ToStr(getTranslation(labels, call.key, getLanguage))
    IN outcome.ret =
         Str(CASE call.before # "" /\ call.after # "" -> call.before \o " " \o T \o " " \o call.after
               [] call.before # "" /\ call.after = "" -> call.before \o " " \o T
               [] call.before = "" /\ call.after # "" -> T \o " " \o call.after
               [] OTHER -> T)

C19_Witness ==
  /\ call.op = "filter" /\ call.before = "" /\ call.after = "B"
  /\ outcome.ret = Str("Keks B")

\* The label a recorded call builds when the registry is empty.
FreshLabel ==
  AddLabelResult(EmptyObject, languageList, defaultLanguage, call.key, call.translation)
    .labels[call.key.val]

\* C12: after addLabel(k, x) and then addLabel(k, y), both returning, the
\* label under k is the one y alone builds, and no translation x gave for a
\* language y leaves out is returned by translate(k) any more.
C12_Overwrite ==
  (pc = "ready" /\ Recorded /\ ~outcome.threw) =>
    /\ labels[call.key.val] = FreshLabel
    /\ \A L \in DOMAIN call.replaced :
         (call.translation.kind = "object" /\ L \notin DOMAIN call.translation.props)
           => getTranslation(labels, call.key, Str(L)) = Undefined

C12_Witness ==
  /\ Recorded /\ ~outcome.threw /\ call.times = 1 /\ call.had
  /\ DOMAIN call.replaced = {"en", "de"}
  /\ call.replaced["de"] = Str("Keks")
  /\ DOMAIN labels[call.key.val] = {"en"}

\* C15: a positional addLabel returns only if the entry at the index of
\* the default language and every other entry is a non-empty String; the
\* stored label then maps the i-th tag of the list to the i-th entry, and
\* the tags past the end of the translation have no translation.
C15_Positional ==
  (pc = "ready" /\ Recorded /\ call.kind = "array" /\ ~outcome.threw) =>
    LET seq == call.translation.items
        label == labels[call.key.val]
    IN /\ \E d \in 1..Len(seq) :
            d <= Len(languageList) /\ languageList[d] = defaultLanguage
              /\ IsNonEmptyString(seq[d])
       /\ \A i \in 1..Len(seq) : IsNonEmptyString(seq[i])
       /\ \A i \in 1..Len(seq) :
            i <= Len(languageList) => Get(label, ToStr(languageList[i])) = seq[i]
       /\ \A i \in (Len(seq) + 1)..Len(languageList) :
            ToStr(languageList[i]) \notin DOMAIN label

\* C17: addLabel(k, x) called a second time with the same arguments returns
\* again and leaves the registry, and with it every translate result, as
\* the first call left it.
C17_Idempotent ==
  [][(Recorded /\ Recorded' /\ call.times = 1 /\ call'.times = 2 /\ ~outcome.threw) =>
       /\ ~outcome'.threw
       /\ labels' = labels
       /\ \A k \in LookupKeys : \A L \in SetLanguageInputs :
            getTranslation(labels', k, L) = getTranslation(labels, k, L)]_vars

C17_Witness ==
  /\ Recorded /\ call.times = 2 /\ ~outcome.threw
  /\ DOMAIN labels[call.key.val] = {"en", "de"}

\* C21: once install is past its active-language step (it returned, or it
\* threw while adding the labels), the storage slot read back between
\* operations is exactly the active language, whatever setLanguage and
\* addLabel calls returned or threw since.
C21_StorageConsistency ==
  (pc = "ready" \/ ThrewInLabels) =>
    readLanguageFromLocalStorage(localStorage) = activeLanguage

====
